---- MODULE Spec2Model ----
(***************************************************************************)
(* State-machine model of speedrun.py: the orchestration of one run        *)
(* (main -> SpeedRun.run -> VastAI.* / run_on_instance) against the        *)
(* vast.ai backend, the SSH/SCP transport and the local filesystem.        *)
(* Every external call is one step; its outcome (response, exit status,    *)
(* exception) is chosen by the environment.                                *)
(***************************************************************************)
EXTENDS Integers, Sequences, FiniteSets, TLC

\* ---------------------------------------------------------------- bounds
MaxOffers   == 2      \* longest search response
MaxOfferId  == 2      \* offer ids 1..MaxOfferId
MaxContract == 2      \* contract ids the backend hands out: 1..MaxContract
MaxPolls    == 1      \* polls that may come back "not ready"
MaxListed   == 2      \* longest "show instances" response

\* ------------------------------------------------------- program constants
None       == -1      \* Python None for integer-valued variables
NumTiers   == 4       \* the four "search offers" calls of find_best_gpu
NumPatterns == 5      \* patterns = ["*.pt", "*.pth", "*.pkl", "*.h5", "*.hdf5"]
DefaultPort == 22     \* port = 22

\* ------------------------------------------------------------ environment
\* The price the backend advertises for an offer (dph_total).
Price(i) == 3 + 4 * i

Offers == { [id |-> i, dph_total |-> Price(i)] : i \in 1..MaxOfferId }
NoOffer == [id |-> None, dph_total |-> 0]

RECURSIVE SeqsUpTo(_, _)
SeqsUpTo(S, n) ==
    IF n = 0 THEN { <<>> }
    ELSE LET shorter == SeqsUpTo(S, n - 1)
         IN  shorter \cup { Append(s, x) : s \in { t \in shorter : Len(t) = n - 1 }, x \in S }

\* What one "search offers" call can return.
Responses == SeqsUpTo(Offers, MaxOffers)

\* Contract ids as the backend allocates them: positive.
ContractIds == 1..MaxContract

\* Every value "new_contract" can hold in a response: any non-negative id.
AnyIds == 0..MaxContract

\* Connection metadata of an instance record.  keys = the keys present in
\* the record; ports22 = the shape of instance_info["ports"]["22/tcp"].
NoMeta == [keys |-> {}, ports22 |-> "none", host_port |-> 0,
           ssh_port |-> 0, direct_port_start |-> 0]
MetaSamples ==
    { [keys |-> {"public_ipaddr", "direct_port_start"}, ports22 |-> "none",
       host_port |-> 0, ssh_port |-> 0, direct_port_start |-> 40000],
      [keys |-> {"ssh_host", "ports"}, ports22 |-> "list", host_port |-> 40022,
       ssh_port |-> 0, direct_port_start |-> 0] }

\* Every shape of the connection metadata: any subset of the five fields,
\* and, when "ports" is there, its "22/tcp" entry missing ("none"), a
\* non-empty list of bindings, an empty list, a bare port or null.
MetaFields == {"public_ipaddr", "ssh_host", "ssh_port", "ports", "direct_port_start"}
PortShapes == {"none", "list", "emptylist", "bare", "null"}
MetaOf(k, p) ==
    [keys |-> k, ports22 |-> p,
     host_port |-> IF p \in {"list", "bare"} THEN 40022 ELSE 0,
     ssh_port |-> IF "ssh_port" \in k THEN 2201 ELSE 0,
     direct_port_start |-> IF "direct_port_start" \in k THEN 40000 ELSE 0]
AllMeta ==
    { m \in { MetaOf(k, p) : k \in SUBSET MetaFields, p \in PortShapes } :
        "ports" \in m.keys \/ m.ports22 = "none" }

InstanceRecords ==
    { [id |-> c, actual_status |-> s, meta |-> m] :
        c \in AnyIds, s \in {"loading", "running"}, m \in MetaSamples }
NoInstance == [id |-> None, actual_status |-> "none", meta |-> NoMeta]

\* What one "show instances" call can return.
Listings == SeqsUpTo(InstanceRecords, MaxListed)

\* Remote paths a training job can leave behind: directory, base name and
\* the index (1..NumPatterns) of the pattern its extension matches.
RemotePaths ==
    { [dir |-> "proj",     base |-> "model.pt",    pat |-> 1],
      [dir |-> "proj/sub", base |-> "model.pt",    pat |-> 1],
      [dir |-> "proj",     base |-> "weights.pth", pat |-> 2] }

VARIABLES
    pc,               \* position of the single thread of control
    dry_run,          \* main: --dry-run given
    precond,          \* main: which precondition (if any) fails
    backend_ids,      \* backend: the contract ids it hands out
    trace,            \* external calls made so far, in order
    tier,             \* find_best_gpu: number of search calls made
    instances,        \* find_best_gpu: the last search response
    instance,         \* run: the selected offer
    start_time,       \* run: start_time
    contract_id,      \* run: contract_id
    provisioned,      \* backend: contract ids it has created
    polls,            \* wait_for_instance: polls that were not ready
    instance_info,    \* run: the record wait_for_instance returned
    pkg,              \* local filesystem: the package temp file
    session,          \* the paramiko SSHClient connection
    conn,             \* run_on_instance: resolved (host, port)
    project_dir,      \* run_on_instance: actual_project_dir
    bootstrap,        \* remote: exit statuses of extraction / pip
    jobs,             \* remote: number of times train.py was started
    remote_files,     \* remote: artifact files present after the job
    pattern,          \* run_on_instance: patterns already searched
    model_files,      \* run_on_instance: model_files
    results_dirs,     \* local filesystem: results directories created
    downloads,        \* scp.get calls: <<remote path, local name>>
    costs,            \* run: every cost computed
    error,            \* the exception currently propagating
    raised,           \* every exception raised so far, in order
    exit_code         \* process exit status (None while running)

vars == << pc, dry_run, precond, backend_ids, trace, tier, instances, instance, start_time,
           contract_id, provisioned, polls, instance_info, pkg, session, conn,
           project_dir, bootstrap, jobs, remote_files, pattern, model_files,
           results_dirs, downloads, costs, error, raised, exit_code >>

\* Groups of variables, for UNCHANGED.
vMain   == << dry_run, precond, backend_ids >>
vFind   == << tier, instances, instance >>
vInst   == << contract_id, provisioned, polls, instance_info >>
vRemote == << conn, project_dir, bootstrap, jobs, remote_files >>
vCollect == << pattern, model_files, results_dirs, downloads >>

NoError == "none"
NoConn == [host |-> "none", port |-> [kind |-> "none", v |-> 0]]

\* One entry of the call log.  arg: the tier of a search, the offer id of a
\* create, the contract id of a destroy, the port of a connect, the exit
\* status of a remote command (None when the call raised), the pattern of an
\* artifact search, the index of a download.
Call(op, arg) == [op |-> op, arg |-> arg]

\* The clock: every external call takes one tick.
Now == Len(trace)

\* The process at its start, against a backend that hands out the ids `ids`.
Started(ids) ==
    /\ pc = "main"
    /\ dry_run \in BOOLEAN
    /\ precond \in {"ok", "usage", "not_a_directory", "no_train_py", "no_api_key"}
    /\ backend_ids = ids
    /\ trace = <<>>
    /\ tier = 0
    /\ instances = <<>>
    /\ instance = NoOffer
    /\ start_time = None
    /\ contract_id = None
    /\ provisioned = {}
    /\ polls = 0
    /\ instance_info = NoInstance
    /\ pkg = "never"
    /\ session = "none"
    /\ conn = NoConn
    /\ project_dir = "none"
    /\ bootstrap = "ok"
    /\ jobs = 0
    /\ remote_files = {}
    /\ pattern = 0
    /\ model_files = <<>>
    /\ results_dirs = 0
    /\ downloads = <<>>
    /\ costs = <<>>
    /\ error = NoError
    /\ raised = <<>>
    /\ exit_code = None

Init == Started(ContractIds)

\* ------------------------------------------------------- exception plumbing
\* raise e: the exception starts propagating and control jumps to `target`
\* (the innermost enclosing finally block, or the process exit).
Raise(e, target) ==
    /\ error' = e
    /\ raised' = Append(raised, e)
    /\ pc' = target

\* Variant: the test is `if contract_id != 0:`, which None passes.
Truthy_NotZero(x) == x # 0

\* Python truthiness of an integer-or-None value: `if contract_id:`.
Truthy(x) == x # None /\ x # 0

\* ------------------------------------------------------------------- main
\* main(): argument, directory, entry-point and token checks.
Main ==
    /\ pc = "main"
    /\ IF precond # "ok"
       THEN /\ pc' = "done"
            /\ exit_code' = 1
       ELSE /\ pc' = IF dry_run THEN "find" ELSE "run"
            /\ UNCHANGED exit_code
    /\ UNCHANGED << vMain, trace, vFind, start_time, vInst, pkg, session, vRemote,
                    vCollect, costs, error, raised >>

\* SpeedRun.run, the statements before the outer try.
RunStart ==
    /\ pc = "run"
    /\ start_time' = Now
    /\ contract_id' = None
    /\ pc' = "find"
    /\ UNCHANGED << vMain, trace, vFind, provisioned, polls, instance_info, pkg,
                    session, vRemote, vCollect, costs, error, raised, exit_code >>

\* ---------------------------------------------------------- find_best_gpu
\* Where an exception leaving find_best_gpu lands: the except clause of the
\* dry-run branch of main, or the outer finally of SpeedRun.run.
FindHandler == IF dry_run THEN "dry_failed" ELSE "finally_destroy"

\* Variant: every tier is queried, whatever the earlier ones returned.
QueryWanted_AllTiers == tier < NumTiers

\* The guard of the k-th search call: the first call is unconditional, each
\* later one runs only `if not instances`.
QueryWanted == tier < NumTiers /\ (tier = 0 \/ instances = <<>>)

\* One "search offers" call that returns a response.
SearchOffers ==
    /\ pc = "find"
    /\ QueryWanted
    /\ \E r \in Responses :
        /\ instances' = r
        /\ tier' = tier + 1
        /\ trace' = Append(trace, Call("search", tier + 1))
    /\ UNCHANGED << pc, vMain, instance, start_time, vInst, pkg, session, vRemote,
                    vCollect, costs, error, raised, exit_code >>

\* One "search offers" call that fails (_run_vastai_cmd raises).
SearchOffersFails ==
    /\ pc = "find"
    /\ QueryWanted
    /\ trace' = Append(trace, Call("search", tier + 1))
    /\ tier' = tier + 1
    /\ instances' = <<>>
    /\ Raise("BackendError", FindHandler)
    /\ UNCHANGED << vMain, instance, start_time, vInst, pkg, session, vRemote,
                    vCollect, costs, exit_code >>

\* The offer find_best_gpu returns from the response it ended on.
Best(resp) == resp[1]

\* Variant: the caller of find_best_gpu goes on to create_instance whether
\* or not --dry-run was given.
SelectBest_ThenCreate ==
    /\ pc = "find"
    /\ ~QueryWanted
    /\ IF instances = <<>>
       THEN /\ Raise("NoGPU", FindHandler)
            /\ UNCHANGED instance
       ELSE /\ instance' = Best(instances)
            /\ pc' = "create"
            /\ UNCHANGED << error, raised >>
    /\ instances' = <<>>
    /\ UNCHANGED << vMain, trace, tier, start_time, vInst, pkg, session, vRemote,
                    vCollect, costs, exit_code >>

\* The tail of find_best_gpu: raise if nothing was found, else return the
\* first offer of the last response.
SelectBest ==
    /\ pc = "find"
    /\ ~QueryWanted
    /\ IF instances = <<>>
       THEN /\ Raise("NoGPU", FindHandler)
            /\ UNCHANGED instance
       ELSE /\ instance' = Best(instances)
            /\ pc' = IF dry_run THEN "dry_ok" ELSE "create"
            /\ UNCHANGED << error, raised >>
    /\ instances' = <<>>
    /\ UNCHANGED << vMain, trace, tier, start_time, vInst, pkg, session, vRemote,
                    vCollect, costs, exit_code >>

\* main, dry-run branch: the search succeeded / raised.
DryRunEnd ==
    /\ pc \in {"dry_ok", "dry_failed"}
    /\ exit_code' = IF pc = "dry_ok" THEN 0 ELSE 1
    /\ error' = NoError
    /\ pc' = "done"
    /\ UNCHANGED << vMain, trace, vFind, start_time, vInst, pkg, session, vRemote,
                    vCollect, costs, raised >>

\* -------------------------------------------------------- create_instance
\* The backend creates the contract and the call returns its id.
CreateInstance ==
    /\ pc = "create"
    /\ \E c \in backend_ids :
        /\ contract_id' = c
        /\ provisioned' = provisioned \cup {c}
    /\ trace' = Append(trace, Call("create", instance.id))
    /\ pc' = "wait"
    /\ UNCHANGED << vMain, vFind, start_time, polls, instance_info, pkg, session,
                    vRemote, vCollect, costs, error, raised, exit_code >>

\* The create call raises.  Either the backend rejected the request (nothing
\* was created), or it created the contract and the response could not be
\* processed: the CLI exits nonzero afterwards, its output is not JSON, or
\* the JSON has no "new_contract".  In both cases contract_id stays None.
CreateInstanceFails ==
    /\ pc = "create"
    /\ \E created \in SUBSET backend_ids :
        /\ Cardinality(created) <= 1
        /\ provisioned' = provisioned \cup created
    /\ trace' = Append(trace, Call("create", instance.id))
    /\ Raise("BackendError", "finally_destroy")
    /\ UNCHANGED << vMain, vFind, start_time, contract_id, polls, instance_info,
                    pkg, session, vRemote, vCollect, costs, exit_code >>

\* ------------------------------------------------------ wait_for_instance
\* Variant: any running record of the listing ends the wait.
Ready_AnyRunning(listing, c) ==
    SelectSeq(listing, LAMBDA r : r.actual_status = "running")

\* The records of a listing that end the wait for contract c.
Ready(listing, c) ==
    SelectSeq(listing, LAMBDA r : r.id = c /\ r.actual_status = "running")

\* One poll whose listing holds no running record of the contract: go on to
\* the sleep.  The loop has no bound of its own; the model counts and logs
\* the first MaxPolls such polls and lets the later ones go by unrecorded.
PollNotReady ==
    /\ pc = "wait"
    /\ \E l \in Listings : Ready(l, contract_id) = <<>>
    /\ IF polls < MaxPolls
       THEN /\ polls' = polls + 1
            /\ trace' = Append(trace, Call("show", 0))
       ELSE UNCHANGED << polls, trace >>
    /\ pc' = "sleep"
    /\ UNCHANGED << vMain, vFind, start_time, contract_id, provisioned,
                    instance_info, pkg, session, vRemote, vCollect, costs, error,
                    raised, exit_code >>

\* time.sleep(10), then the next iteration of `while True`.
Sleep ==
    /\ pc = "sleep"
    /\ pc' = "wait"
    /\ UNCHANGED << vMain, trace, vFind, start_time, vInst, pkg, session, vRemote,
                    vCollect, costs, error, raised, exit_code >>

\* One poll that finds the contract running: return its record.
PollReady ==
    /\ pc = "wait"
    /\ \E l \in Listings :
        /\ Ready(l, contract_id) # <<>>
        /\ instance_info' = Head(Ready(l, contract_id))
    /\ trace' = Append(trace, Call("show", 0))
    /\ pc' = "package"
    /\ UNCHANGED << vMain, vFind, start_time, contract_id, provisioned, polls,
                    pkg, session, vRemote, vCollect, costs, error, raised, exit_code >>

\* Variant: the wait stands outside the try whose finally destroys the
\* instance, so a failed poll leaves run at once.
PollFails_OutsideTry ==
    /\ pc = "wait"
    /\ trace' = Append(trace, Call("show", 0))
    /\ Raise("BackendError", "done")
    /\ exit_code' = 1
    /\ UNCHANGED << vMain, vFind, start_time, vInst, pkg, session, vRemote,
                    vCollect, costs >>

\* One poll that fails (_run_vastai_cmd raises).
PollFails ==
    /\ pc = "wait"
    /\ trace' = Append(trace, Call("show", 0))
    /\ Raise("BackendError", "finally_destroy")
    /\ UNCHANGED << vMain, vFind, start_time, vInst, pkg, session, vRemote,
                    vCollect, costs, exit_code >>

\* -------------------------------------------------------- package_project
\* NamedTemporaryFile(delete=False) creates the file, then the archive is
\* written into it.
PackageProject ==
    /\ pc = "package"
    /\ pkg' = "present"
    /\ pc' = "resolve"
    /\ UNCHANGED << vMain, trace, vFind, start_time, vInst, session, vRemote,
                    vCollect, costs, error, raised, exit_code >>

\* Packaging raises: before the temp file exists (NamedTemporaryFile fails)
\* or while the archive is written into it (tarfile.open / tar.add / stat).
\* package_project has no cleanup of its own and is called outside the inner
\* try of run, so the file stays.
PackageProjectFails ==
    /\ pc = "package"
    /\ \E created \in BOOLEAN :
        pkg' = IF created THEN "present" ELSE "absent"
    /\ Raise("OSError", "finally_destroy")
    /\ UNCHANGED << vMain, trace, vFind, start_time, vInst, session, vRemote,
                    vCollect, costs, exit_code >>

\* -------------------------------------------------------- run_on_instance
\* A port value as Python holds it: a number, an empty list or None.
Port(kind, v) == [kind |-> kind, v |-> v]

\* Lines 163-184: the (host, port) derived from the instance record, or the
\* KeyError of instance_info["public_ipaddr"].
Resolve(info) ==
    LET m == info.meta IN
    IF "public_ipaddr" \notin m.keys
    THEN [ok |-> FALSE, host |-> "none", port |-> Port("none", 0)]
    ELSE IF "ssh_host" \in m.keys /\ "ssh_port" \in m.keys
    THEN [ok |-> TRUE, host |-> "ssh_host", port |-> Port("num", m.ssh_port)]
    ELSE IF "ports" \in m.keys /\ m.ports22 # "none"
    THEN [ok |-> TRUE, host |-> "public_ipaddr",
          port |-> IF m.ports22 = "list" THEN Port("num", m.host_port)
                   ELSE IF m.ports22 = "bare" THEN Port("num", m.host_port)
                   ELSE Port(m.ports22, 0)]
    ELSE IF "direct_port_start" \in m.keys
    THEN [ok |-> TRUE, host |-> "public_ipaddr", port |-> Port("num", m.direct_port_start)]
    ELSE [ok |-> TRUE, host |-> "public_ipaddr", port |-> Port("num", DefaultPort)]

\* Lines 163-184 as a step of the run.
ResolveConnection ==
    /\ pc = "resolve"
    /\ LET r == Resolve(instance_info) IN
       IF r.ok
       THEN /\ conn' = [host |-> r.host, port |-> r.port]
            /\ pc' = "connect"
            /\ UNCHANGED << error, raised >>
       ELSE /\ Raise("KeyError", "finally_unlink")
            /\ UNCHANGED conn
    /\ UNCHANGED << vMain, trace, vFind, start_time, vInst, pkg, session,
                    project_dir, bootstrap, jobs, remote_files, vCollect, costs,
                    exit_code >>

\* ssh.connect(...) succeeds: the session is open.
Connect ==
    /\ pc = "connect"
    /\ conn.port.kind = "num"
    /\ session' = "open"
    /\ trace' = Append(trace, Call("connect", conn.port.v))
    /\ pc' = "scp"
    /\ UNCHANGED << vMain, vFind, start_time, vInst, pkg, vRemote, vCollect,
                    costs, error, raised, exit_code >>

\* ssh.connect(...) raises: no session was opened.
ConnectFails ==
    /\ pc = "connect"
    /\ trace' = Append(trace, Call("connect", conn.port.v))
    /\ Raise("SSHError", "finally_unlink")
    /\ UNCHANGED << vMain, vFind, start_time, vInst, pkg, session, vRemote,
                    vCollect, costs, exit_code >>

\* scp = SCPClient(ssh.get_transport()) succeeds; the try block is entered.
OpenScp ==
    /\ pc = "scp"
    /\ pc' = "put"
    /\ UNCHANGED << vMain, trace, vFind, start_time, vInst, pkg, session, vRemote,
                    vCollect, costs, error, raised, exit_code >>

\* Setting up the file-transfer channel raises.  The statement stands before
\* the try whose finally closes the session, so the exception leaves
\* run_on_instance with the session still open.
OpenScpFails ==
    /\ pc = "scp"
    /\ Raise("SSHError", "finally_unlink")
    /\ UNCHANGED << vMain, trace, vFind, start_time, vInst, pkg, session, vRemote,
                    vCollect, costs, exit_code >>

\* The positions inside the try block at which a remote call is made, and
\* the call made there.
TrySteps == {"put", "extract", "ls", "find_train", "ls_req", "pip", "train",
             "find_model", "get"}
OpAt(p) == IF p \in {"put", "get"} THEN p ELSE "exec_" \o p

\* Any remote call inside the try block raises (transport failure): control
\* goes to the finally that closes the session.
RemoteCallFails ==
    /\ pc \in TrySteps
    /\ trace' = Append(trace, Call(OpAt(pc), None))
    /\ jobs' = IF pc = "train" THEN jobs + 1 ELSE jobs
    /\ Raise("SSHError", "finally_close")
    /\ UNCHANGED << vMain, vFind, start_time, vInst, pkg, session, conn,
                    project_dir, bootstrap, remote_files, vCollect, costs, exit_code >>

\* scp.put(package_path, "/root/project.tar.gz")
Upload ==
    /\ pc = "put"
    /\ trace' = Append(trace, Call("put", 0))
    /\ pc' = "extract"
    /\ UNCHANGED << vMain, vFind, start_time, vInst, pkg, session, vRemote,
                    vCollect, costs, error, raised, exit_code >>

\* exec_command("cd /root && tar -xzf ... && rm ..."); stdout.read().  The
\* exit status of the command is never read.
Extract ==
    /\ pc = "extract"
    /\ \E status \in {0, 1} :
        /\ trace' = Append(trace, Call("exec_extract", status))
        /\ bootstrap' = IF status # 0 THEN "extract_failed" ELSE bootstrap
    /\ pc' = "ls"
    /\ UNCHANGED << vMain, vFind, start_time, vInst, pkg, session, conn,
                    project_dir, jobs, remote_files, vCollect, costs, error,
                    raised, exit_code >>

\* exec_command("ls -la /root/")
ListRoot ==
    /\ pc = "ls"
    /\ trace' = Append(trace, Call("exec_ls", 0))
    /\ pc' = "find_train"
    /\ UNCHANGED << vMain, vFind, start_time, vInst, pkg, session, vRemote,
                    vCollect, costs, error, raised, exit_code >>

\* exec_command("find /root -name 'train.py' -type f"): the directory of the
\* match, or /root/<project_name> when nothing matched.
FindTrain ==
    /\ pc = "find_train"
    /\ \E found \in BOOLEAN :
        project_dir' = IF found THEN "found" ELSE "default"
    /\ trace' = Append(trace, Call("exec_find_train", 0))
    /\ pc' = "ls_req"
    /\ UNCHANGED << vMain, vFind, start_time, vInst, pkg, session, conn,
                    bootstrap, jobs, remote_files, vCollect, costs, error, raised,
                    exit_code >>

\* exec_command("ls <dir>/requirements.txt"): pip runs iff stderr is empty.
ListRequirements ==
    /\ pc = "ls_req"
    /\ \E manifest \in BOOLEAN :
        pc' = IF manifest THEN "pip" ELSE "train"
    /\ trace' = Append(trace, Call("exec_ls_req", 0))
    /\ UNCHANGED << vMain, vFind, start_time, vInst, pkg, session, vRemote,
                    vCollect, costs, error, raised, exit_code >>

\* exec_command("cd <dir> && pip install -r requirements.txt"); the exit
\* status is never read.
InstallRequirements ==
    /\ pc = "pip"
    /\ \E status \in {0, 1} :
        /\ trace' = Append(trace, Call("exec_pip", status))
        /\ bootstrap' = IF status # 0 /\ bootstrap = "ok" THEN "pip_failed" ELSE bootstrap
    /\ pc' = "train"
    /\ UNCHANGED << vMain, vFind, start_time, vInst, pkg, session, conn,
                    project_dir, jobs, remote_files, vCollect, costs, error,
                    raised, exit_code >>

\* Variant: the exit status of the job is not checked.
RunTraining_StatusIgnored ==
    /\ pc = "train"
    /\ jobs' = jobs + 1
    /\ \E status \in {0, 1} :
        trace' = Append(trace, Call("exec_train", status))
    /\ remote_files' \in SUBSET RemotePaths
    /\ pc' = "find_model"
    /\ UNCHANGED << vMain, vFind, start_time, vInst, pkg, session, conn,
                    project_dir, bootstrap, vCollect, costs, error, raised,
                    exit_code >>

\* exec_command("cd <dir> && python train.py", get_pty=True), the streaming
\* loop and recv_exit_status(): nonzero raises "Training failed".
RunTraining ==
    /\ pc = "train"
    /\ jobs' = jobs + 1
    /\ \E status \in {0, 1} :
        /\ trace' = Append(trace, Call("exec_train", status))
        /\ IF status # 0
           THEN /\ Raise("TrainingFailed", "finally_close")
                /\ UNCHANGED remote_files
           ELSE /\ remote_files' \in SUBSET RemotePaths
                /\ pc' = "find_model"
                /\ UNCHANGED << error, raised >>
    /\ UNCHANGED << vMain, vFind, start_time, vInst, pkg, session, conn,
                    project_dir, bootstrap, vCollect, costs, exit_code >>

\* The orders in which `find` can print the files of set S.
Orderings(S) ==
    { s \in SeqsUpTo(S, Cardinality(S)) :
        Len(s) = Cardinality(S) /\ \A i, j \in 1..Len(s) : s[i] = s[j] => i = j }

\* Variant: the second pattern also matches what the first one matches (as
\* '*.pt*' would).
Matching_Overlap(k) == { f \in remote_files : f.pat = k \/ (k = 2 /\ f.pat = 1) }

\* What `find <dir> -name '<pattern k>' -type f` prints.
Matching(k) == { f \in remote_files : f.pat = k }

\* Variant: an artifact search that ends with nothing found raises.
FindModelFiles_EmptyIsError ==
    /\ pc = "find_model"
    /\ pattern < NumPatterns
    /\ \E files \in Orderings(Matching(pattern + 1)) :
        model_files' = model_files \o files
    /\ pattern' = pattern + 1
    /\ trace' = Append(trace, Call("exec_find_model", pattern + 1))
    /\ IF pattern + 1 < NumPatterns
       THEN pc' = "find_model" /\ UNCHANGED << error, raised >>
       ELSE IF model_files' # <<>>
       THEN pc' = "mkdir" /\ UNCHANGED << error, raised >>
       ELSE Raise("NoArtifacts", "finally_close")
    /\ UNCHANGED << vMain, vFind, start_time, vInst, pkg, session, vRemote,
                    results_dirs, downloads, costs, exit_code >>

\* One iteration of `for pattern in patterns`; after the last one,
\* `if model_files:` decides between the download branch and the end of the
\* try block.
FindModelFiles ==
    /\ pc = "find_model"
    /\ pattern < NumPatterns
    /\ \E files \in Orderings(Matching(pattern + 1)) :
        model_files' = model_files \o files
    /\ pattern' = pattern + 1
    /\ trace' = Append(trace, Call("exec_find_model", pattern + 1))
    /\ pc' = IF pattern + 1 < NumPatterns THEN "find_model"
             ELSE IF model_files' # <<>> THEN "mkdir" ELSE "finally_close"
    /\ UNCHANGED << vMain, vFind, start_time, vInst, pkg, session, vRemote,
                    results_dirs, downloads, costs, error, raised, exit_code >>

\* results_dir.mkdir(exist_ok=True)
MakeResultsDir ==
    /\ pc = "mkdir"
    /\ results_dirs' = results_dirs + 1
    /\ pc' = "get"
    /\ UNCHANGED << vMain, trace, vFind, start_time, vInst, pkg, session, vRemote,
                    pattern, model_files, downloads, costs, error, raised, exit_code >>

\* results_dir.mkdir raises (local filesystem).
MakeResultsDirFails ==
    /\ pc = "mkdir"
    /\ Raise("OSError", "finally_close")
    /\ UNCHANGED << vMain, trace, vFind, start_time, vInst, pkg, session, vRemote,
                    vCollect, costs, exit_code >>

\* The local target of a remote file: results_dir / Path(remote_file).name.
LocalName(f) == f.base

\* One iteration of `for remote_file in model_files`: scp.get.
Download ==
    /\ pc = "get"
    /\ LET i == Len(downloads) + 1
           f == model_files[i]
       IN  /\ downloads' = Append(downloads, [remote |-> f, local |-> LocalName(f)])
           /\ trace' = Append(trace, Call("get", i))
           /\ pc' = IF i < Len(model_files) THEN "get" ELSE "finally_close"
    /\ UNCHANGED << vMain, vFind, start_time, vInst, pkg, session, vRemote,
                    pattern, model_files, results_dirs, costs, error, raised,
                    exit_code >>

\* finally: ssh.close().  Afterwards run_on_instance returns, or the pending
\* exception goes on to the inner finally of run.
CloseSession ==
    /\ pc = "finally_close"
    /\ session' = "closed"
    /\ trace' = Append(trace, Call("close", 0))
    /\ pc' = IF error = NoError THEN "cost" ELSE "finally_unlink"
    /\ UNCHANGED << vMain, vFind, start_time, vInst, pkg, vRemote, vCollect,
                    costs, error, raised, exit_code >>

\* -------------------------------------------------------------------- run
\* duration * instance["dph_total"], in clock ticks.
Cost(elapsed, offer) == elapsed * offer.dph_total

\* Lines 289-292, reached only when run_on_instance returned.
ComputeCost ==
    /\ pc = "cost"
    /\ costs' = Append(costs, [price |-> instance.dph_total,
                               cost  |-> Cost(Now - start_time, instance)])
    /\ pc' = "finally_unlink"
    /\ UNCHANGED << vMain, trace, vFind, start_time, vInst, pkg, session, vRemote,
                    vCollect, error, raised, exit_code >>

\* inner finally: package_path.unlink()
Unlink ==
    /\ pc = "finally_unlink"
    /\ pkg' = "absent"
    /\ pc' = "finally_destroy"
    /\ UNCHANGED << vMain, trace, vFind, start_time, vInst, session, vRemote,
                    vCollect, costs, error, raised, exit_code >>

\* package_path.unlink() raises: the file stays and the new exception
\* replaces the pending one.
UnlinkFails ==
    /\ pc = "finally_unlink"
    /\ Raise("UnlinkError", "finally_destroy")
    /\ UNCHANGED << vMain, trace, vFind, start_time, vInst, pkg, session, vRemote,
                    vCollect, costs, exit_code >>

\* How the process ends once run is left: run returned to main
\* ("Speedrun completed", status 0), or the exception leaves main uncaught
\* (traceback, status 1).
ExitStatus(err) == IF err = NoError THEN 0 ELSE 1

\* outer finally, `if contract_id:` true: destroy_instance returns, and the
\* pending exception, if any, goes on out of run.
DestroyInstance ==
    /\ pc = "finally_destroy"
    /\ Truthy(contract_id)
    /\ trace' = Append(trace, Call("destroy", contract_id))
    /\ exit_code' = ExitStatus(error)
    /\ pc' = "done"
    /\ UNCHANGED << vMain, vFind, start_time, vInst, pkg, session, vRemote,
                    vCollect, costs, error, raised >>

\* outer finally: destroy_instance raises (_run_vastai_cmd fails).  Nothing
\* catches it: it replaces the pending exception, if any, and leaves run.
DestroyInstanceFails ==
    /\ pc = "finally_destroy"
    /\ Truthy(contract_id)
    /\ trace' = Append(trace, Call("destroy", contract_id))
    /\ Raise("DestroyError", "done")
    /\ exit_code' = ExitStatus("DestroyError")
    /\ UNCHANGED << vMain, vFind, start_time, vInst, pkg, session, vRemote,
                    vCollect, costs >>

\* outer finally, `if contract_id:` false: nothing is destroyed.
SkipDestroy ==
    /\ pc = "finally_destroy"
    /\ ~Truthy(contract_id)
    /\ exit_code' = ExitStatus(error)
    /\ pc' = "done"
    /\ UNCHANGED << vMain, trace, vFind, start_time, vInst, pkg, session, vRemote,
                    vCollect, costs, error, raised >>

Next ==
    \/ Main
    \/ RunStart
    \/ SearchOffers
    \/ SearchOffersFails
    \/ SelectBest
    \/ DryRunEnd
    \/ CreateInstance
    \/ CreateInstanceFails
    \/ PollNotReady
    \/ Sleep
    \/ PollReady
    \/ PollFails
    \/ PackageProject
    \/ PackageProjectFails
    \/ ResolveConnection
    \/ Connect
    \/ ConnectFails
    \/ OpenScp
    \/ OpenScpFails
    \/ RemoteCallFails
    \/ Upload
    \/ Extract
    \/ ListRoot
    \/ FindTrain
    \/ ListRequirements
    \/ InstallRequirements
    \/ RunTraining
    \/ FindModelFiles
    \/ MakeResultsDir
    \/ MakeResultsDirFails
    \/ Download
    \/ CloseSession
    \/ ComputeCost
    \/ Unlink
    \/ UnlinkFails
    \/ DestroyInstance
    \/ DestroyInstanceFails
    \/ SkipDestroy

Spec == Init /\ [][Next]_vars

\* The same program under the assumption that every call returns or fails
\* and the thread always takes its next step.
SpecLive == Init /\ [][Next]_vars /\ WF_vars(Next)

\* The same program against a backend that may also hand out contract id 0.
InitAnyId == Started(AnyIds)
SpecAnyId == InitAnyId /\ [][Next]_vars

\* ================================================================ properties
\* The calls of one kind, in the order they were made.
CallsOf(op) == SelectSeq(trace, LAMBDA c : c.op = op)
Searches == CallsOf("search")
Creates  == CallsOf("create")
Destroys == CallsOf("destroy")

\* The run is over (the process has exited).
Done == pc = "done"
\* create_instance returned a contract id to run.
Created == contract_id # None
\* The first exception raised in the run, if any.
FirstError == IF raised = <<>> THEN NoError ELSE raised[1]

\* C1: whatever fails at the provisioning wait, during deployment or during
\* artifact collection, a finished run that obtained a contract id has made
\* exactly one destroy call, for that id; at no time are there two.
C1_ExactlyOneDestroy ==
    /\ Len(Destroys) <= 1
    /\ Done /\ Created => /\ Len(Destroys) = 1
                          /\ Destroys[1].arg = contract_id

\* C1 witness: a run whose only failure was a download of an artifact has
\* ended with its one destroy call.
C1_Witness ==
    /\ Done /\ Created
    /\ results_dirs = 1
    /\ raised = <<"SSHError">>
    /\ Len(Destroys) = 1

\* C2 (as claimed): a failure of the destroy call never leaves run, so the
\* run ends with the outcome it had before the teardown.
C2_DestroyFailureSwallowed ==
    Done => error # "DestroyError"

\* C3 (as claimed): when the run is over, every contract the backend created
\* during it has received a destroy call.
C3_NoInstanceOutlivesRun ==
    Done => \A c \in provisioned : \E i \in 1..Len(Destroys) : Destroys[i].arg = c

\* run_on_instance has been left (by return or by exception).
LeftRemotePhase == pc \in {"cost", "finally_unlink", "finally_destroy", "done"}

\* C4 (as claimed): once the destroy call is made it is the last call of the
\* run, and it is made with the remote session no longer open.
C4_DestroyIsLast ==
    Destroys # <<>> => /\ trace[Len(trace)].op = "destroy"
                       /\ session # "open"

\* C5 (as claimed): once the deployment phase is over (the outer finally is
\* reached, or the run has ended) the package file is not on disk.
C5_PackageAbsentAfterDeploy ==
    pc \in {"finally_destroy", "done"} => pkg # "present"

\* C6 (as claimed): no session is open once run_on_instance has been left.
C6_SessionClosedOnExit ==
    LeftRemotePhase => session # "open"

\* C7: the search calls are tiers 1, 2, ... in order, at most four; once a
\* call returned at least one offer no further search is made and the offer
\* find_best_gpu returns is the first of that response; no search is made
\* after find_best_gpu.
C7_TieredShortCircuit ==
    /\ [](/\ Len(Searches) <= NumTiers
          /\ \A i \in 1..Len(Searches) : Searches[i].arg = i)
    /\ [][instances # <<>> => /\ Searches' = Searches
                              /\ instance' = instances[1]]_vars
    /\ [][pc # "find" => Searches' = Searches]_vars

\* C7 witness: a tier after the first and before the last answered, and the
\* selection was made from its response.
C7_Witness ==
    /\ pc = "create"
    /\ tier \in 2..(NumTiers - 1)
    /\ Len(Searches) = tier
    /\ instance.id = MaxOfferId

\* The search ended with all four tiers queried and nothing selected.
AllTiersEmpty ==
    /\ pc # "find"
    /\ tier = NumTiers
    /\ instance = NoOffer
    /\ FirstError # "BackendError"

\* C8: when all four tiers return empty, the no-resource error is raised
\* after exactly four searches; nothing is created or destroyed; without
\* --dry-run that error is what the run ends with.
C8_NoResourceAborts ==
    /\ AllTiersEmpty => raised = <<"NoGPU">>
    /\ FirstError = "NoGPU" =>
          /\ Len(Searches) = NumTiers
          /\ Creates = <<>>
          /\ provisioned = {}
          /\ Destroys = <<>>
          /\ raised = <<"NoGPU">>
          /\ Done => exit_code = 1
          /\ Done /\ ~dry_run => error = "NoGPU"

\* C8 witness: a full run (not a dry run) ended that way.
C8_Witness ==
    /\ Done /\ ~dry_run
    /\ raised = <<"NoGPU">>
    /\ Len(trace) = NumTiers

\* The job was started and exited with a nonzero status.
JobExitedNonzero == \E i \in 1..Len(trace) : trace[i] = Call("exec_train", 1)

\* C9: after a nonzero exit of the job the training error is raised, the job
\* was started once, no artifact search, results directory or download
\* exists, the session is closed once run_on_instance is left, and the
\* finished run has destroyed the instance.
C9_JobFailure ==
    JobExitedNonzero =>
        /\ \E i \in 1..Len(raised) : raised[i] = "TrainingFailed"
        /\ jobs = 1
        /\ Len(CallsOf("exec_train")) = 1
        /\ CallsOf("exec_find_model") = <<>>
        /\ CallsOf("get") = <<>>
        /\ results_dirs = 0
        /\ downloads = <<>>
        /\ LeftRemotePhase => session = "closed"
        /\ Done => /\ Len(Destroys) = 1
                   /\ Destroys[1].arg = contract_id

\* C9 witness: a run whose job exited nonzero has ended.
C9_Witness ==
    /\ Done
    /\ JobExitedNonzero
    /\ raised = <<"TrainingFailed">>
    /\ session = "closed"
    /\ Len(Destroys) = 1

\* C10 (as claimed): a finished run that opened and closed the remote session
\* has computed the cost exactly once, from the price of the selected offer,
\* whether the remote phase succeeded or failed, and made no backend query
\* between the end of the remote phase and the destroy call.
C10_CostComputedOnce ==
    Done /\ Created /\ session = "closed" =>
        /\ Len(costs) = 1
        /\ costs[1].price = instance.dph_total
        /\ \A i, j \in 1..Len(trace) :
              trace[i].op = "close" /\ i < j => trace[j].op = "destroy"

\* ------------------------------------------------ connection resolution
\* A run that has reached the resolution of lines 163-184: one search, the
\* create, one poll, the package written; the instance record carries any
\* metadata shape.
InitResolve ==
    /\ pc = "resolve"
    /\ dry_run = FALSE
    /\ precond = "ok"
    /\ backend_ids = ContractIds
    /\ instance \in Offers
    /\ contract_id \in ContractIds
    /\ trace = << Call("search", 1), Call("create", instance.id), Call("show", 0) >>
    /\ tier = 1
    /\ instances = <<>>
    /\ start_time = 0
    /\ provisioned = {contract_id}
    /\ polls = 0
    /\ \E m \in AllMeta :
        instance_info = [id |-> contract_id, actual_status |-> "running", meta |-> m]
    /\ pkg = "present"
    /\ session = "none"
    /\ conn = NoConn
    /\ project_dir = "none"
    /\ bootstrap = "ok"
    /\ jobs = 0
    /\ remote_files = {}
    /\ pattern = 0
    /\ model_files = <<>>
    /\ results_dirs = 0
    /\ downloads = <<>>
    /\ costs = <<>>
    /\ error = NoError
    /\ raised = <<>>
    /\ exit_code = None

NextResolve ==
    \/ ResolveConnection
    \/ Connect
    \/ ConnectFails

SpecResolve == InitResolve /\ [][NextResolve]_vars

\* The resolution of lines 163-184 has run (returned or raised).
Resolved == pc \in {"connect", "finally_unlink"} /\ trace[Len(trace)].op = "show"

\* C11 (as claimed): the resolved pair follows the priority (a) ssh_host and
\* ssh_port, (b) ports["22/tcp"] (HostPort of the first binding of a
\* non-empty list, else the value itself), (c) direct_port_start, (d) port
\* 22; (b)-(d) on the public address, stated for the records that have one.
C11_ResolutionPriority ==
    Resolved =>
        LET m == instance_info.meta
            public == "public_ipaddr" \in m.keys
        IN  IF "ssh_host" \in m.keys /\ "ssh_port" \in m.keys
            THEN conn = [host |-> "ssh_host", port |-> Port("num", m.ssh_port)]
            ELSE IF "ports" \in m.keys /\ m.ports22 # "none"
            THEN public =>
                 conn = [host |-> "public_ipaddr",
                         port |-> IF m.ports22 \in {"list", "bare"}
                                  THEN Port("num", m.host_port)
                                  ELSE Port(m.ports22, 0)]
            ELSE IF "direct_port_start" \in m.keys
            THEN public =>
                 conn = [host |-> "public_ipaddr",
                         port |-> Port("num", m.direct_port_start)]
            ELSE public =>
                 conn = [host |-> "public_ipaddr", port |-> Port("num", DefaultPort)]

\* C12 (as claimed): for every metadata shape the resolution returns, without
\* raising, a host and a port that is a number.
C12_ResolutionTotal ==
    Resolved => /\ pc = "connect"
                /\ conn.host # "none"
                /\ conn.port.kind = "num"

\* ------------------------------------------------------------------ dry run
\* C13: with --dry-run the only external calls are searches: nothing is
\* created, listed or destroyed, no package is written and no session is
\* opened; once the preconditions passed, the process exits with 1 if the
\* selection raised and with 0 otherwise.
C13_DryRunSelectsOnly ==
    dry_run =>
        /\ \A i \in 1..Len(trace) : trace[i].op = "search"
        /\ Creates = <<>> /\ CallsOf("show") = <<>> /\ Destroys = <<>>
        /\ contract_id = None /\ provisioned = {}
        /\ pkg = "never" /\ session = "none"
        /\ Done /\ precond = "ok" => exit_code = IF raised # <<>> THEN 1 ELSE 0

\* C13 witness: a dry run whose second tier answered has exited with 0.
C13_Witness ==
    /\ Done /\ dry_run
    /\ instance # NoOffer
    /\ Len(Searches) = 2
    /\ exit_code = 0

\* ------------------------------------------------------ artifact collection
\* The job exited with status 0.
JobSucceeded == \E i \in 1..Len(trace) : trace[i] = Call("exec_train", 0)

\* The artifact search ran over all five patterns and found nothing.
NothingFound == JobSucceeded /\ pattern = NumPatterns /\ model_files = <<>>

\* C14: when the job exited 0 and the five searches found nothing, no
\* results directory is made and nothing is downloaded; the empty result
\* raises nothing (the only exceptions such a run can see are failures of the
\* package deletion or of the destroy call in the teardown); the session is
\* closed when run_on_instance is left; the finished run has destroyed the
\* instance and, with no teardown failure, has exited with status 0.
C14_NoArtifactsIsSuccess ==
    NothingFound =>
        /\ results_dirs = 0
        /\ downloads = <<>>
        /\ CallsOf("get") = <<>>
        /\ Len(CallsOf("exec_find_model")) = NumPatterns
        /\ \A i \in 1..Len(raised) : raised[i] \in {"UnlinkError", "DestroyError"}
        /\ LeftRemotePhase => session = "closed"
        /\ pc \in {"finally_destroy", "done"} /\ raised = <<>> => pkg = "absent"
        /\ Done => /\ Len(Destroys) = 1
                   /\ Destroys[1].arg = contract_id
        /\ Done /\ raised = <<>> => /\ exit_code = 0
                                    /\ error = NoError
                                    /\ Len(costs) = 1

\* C14 witness: such a run has ended, successfully.
C14_Witness ==
    /\ Done
    /\ NothingFound
    /\ session = "closed"
    /\ Len(Destroys) = 1
    /\ exit_code = 0

\* The artifact search ran over all five patterns and found something.
FoundSome == JobSucceeded /\ pattern = NumPatterns /\ model_files # <<>>

\* run_on_instance returned normally.
Returned == pc = "cost" \/ costs # <<>>

\* C15: when the job exited 0 and the search found files, the list to
\* download holds each remote path that matches a pattern exactly once; the
\* downloads follow that list, each to the base name of its remote path
\* inside the results directory, which is created once and before the first
\* download; when run_on_instance returns, exactly one results directory
\* exists and every path of the list was downloaded exactly once.
C15_EachArtifactOnce ==
    FoundSome =>
        /\ \A i, j \in 1..Len(model_files) : model_files[i] = model_files[j] => i = j
        /\ { model_files[i] : i \in 1..Len(model_files) } =
               { f \in remote_files : f.pat \in 1..NumPatterns }
        /\ results_dirs <= 1
        /\ Len(downloads) <= Len(model_files)
        /\ \A i \in 1..Len(downloads) :
              /\ downloads[i].remote = model_files[i]
              /\ downloads[i].local = downloads[i].remote.base
        /\ downloads # <<>> => results_dirs = 1
        /\ Returned => /\ results_dirs = 1
                       /\ Len(downloads) = Len(model_files)
                       /\ Len(CallsOf("get")) = Len(model_files)

\* C15 witness: run_on_instance returned after downloading three files, two
\* of them with the same base name.
C15_Witness ==
    /\ pc = "cost"
    /\ FoundSome
    /\ results_dirs = 1
    /\ Len(downloads) = 3

\* ---------------------------------------------------------------- bootstrap
\* The upload raised, or the extraction or the installation of the
\* requirements exited with a nonzero status.
BootstrapFailed ==
    \/ \E i \in 1..Len(trace) : trace[i] = Call("put", None)
    \/ bootstrap # "ok"

\* C16 (as claimed): after a failed upload, extraction or installation the
\* job is never started, and the run ends in error.
C16_BootstrapFailureAborts ==
    BootstrapFailed =>
        /\ jobs = 0
        /\ CallsOf("exec_train") = <<>>
        /\ Done => exit_code = 1

\* ------------------------------------------------------ provisioning wait
\* The run has gone past wait_for_instance into packaging or deployment.
PastWait ==
    \/ pc \in {"package", "resolve", "connect", "scp", "mkdir", "finally_close",
               "cost", "finally_unlink"} \cup TrySteps
    \/ pkg # "never" \/ session # "none" \/ conn # NoConn
    \/ \E i \in 1..Len(trace) :
          trace[i].op \notin {"search", "create", "show", "destroy"}

\* C17: the record wait_for_instance returned has the id of the created
\* contract and status running, whatever other contracts the listings held;
\* and the run packages, resolves, connects or executes something only after
\* a poll returned such a record.
C17_WaitReturnsTarget ==
    /\ instance_info # NoInstance =>
          /\ Created
          /\ instance_info.id = contract_id
          /\ instance_info.actual_status = "running"
          /\ CallsOf("show") # <<>>
    /\ PastWait => instance_info # NoInstance

\* C17 witness: the wait ended on a later poll, after one that did not show
\* the contract running; packaging is about to start.
C17_Witness ==
    /\ pc = "package"
    /\ polls = MaxPolls
    /\ Len(CallsOf("show")) = MaxPolls + 1
    /\ instance_info.id = contract_id

\* ----------------------------------------------------------------- liveness
\* C18 (as claimed): once create_instance has returned a contract id, a
\* destroy call is eventually made, also when no poll ever shows the contract
\* running.
C18_DestroyEventually ==
    Created ~> (Destroys # <<>>)

\* ------------------------------------------------------- create / destroy
\* C19 (as claimed): in a finished run a destroy call was made if and only
\* if create_instance returned a contract id, there is one such call and its
\* argument is that id, whatever id the backend returned (0 included);
\* create_instance is called at most once, with the id of the selected offer.
C19_DestroyIffCreated ==
    /\ Len(Creates) <= 1
    /\ \A i \in 1..Len(Creates) : Creates[i].arg = instance.id
    /\ Done => /\ Created <=> Destroys # <<>>
               /\ Created => Destroys = << Call("destroy", contract_id) >>

\* ------------------------------------------------------------ cleanup order
\* The deletion of the package was attempted and failed.
UnlinkFailed == \E i \in 1..Len(raised) : raised[i] = "UnlinkError"

\* C20 (as claimed): on every exit path the session, if one was opened, is
\* closed before the package deletion is reached; the package, if one was
\* written, has been deleted (or its deletion has failed) before the destroy
\* is reached; no destroy call precedes either; and a finished run that
\* obtained a contract id has made its destroy call, a failed deletion
\* included.
C20_CleanupOrder ==
    /\ pc = "finally_unlink" => /\ session # "open"
                                /\ Destroys = <<>>
    /\ pc = "finally_destroy" => /\ session # "open"
                                 /\ pkg = "present" => UnlinkFailed
                                 /\ Destroys = <<>>
    /\ Done /\ Created => /\ session # "open"
                          /\ pkg = "present" => UnlinkFailed
                          /\ Len(Destroys) = 1

====
